---- MODULE Spec2Model ----
(***************************************************************************)
(* A model of GoSlice's polygon layer-processing core:                     *)
(*   - clipperClipper.GenerateLayerParts (vertex de-duplication at ingest  *)
(*     and the walk over the polygon tree the union returns),              *)
(*   - clipperClipper.Inset (successive inward offsets, wall/inset grid),  *)
(*   - clipperClipper.Fill / getLinearFill (scan lines and their clipping),*)
(*   - the typed attribute accessors Perimeters / OverlapPerimeters,       *)
(*   - perimeterModifier.Modify and calculateOverlapPerimeter.             *)
(* Every operation has its own specification; the variables of the other   *)
(* operations stay at their idle values there.                             *)
(*                                                                         *)
(* The polygon Boolean / offset engine (go.clipper) is an external         *)
(* library.  Where a result of it is needed it is either chosen            *)
(* nondeterministically (the union's polygon tree, the number of paths an  *)
(* offset returns) or, for Fill, computed on axis-aligned rectangles.      *)
(***************************************************************************)
EXTENDS Integers, Sequences, FiniteSets, TLC

VARIABLES
    \* ---- GenerateLayerParts
    layer,              \* l.Polygons(): the input loops
    polyNr,             \* position of the outer range loop (1-based)
    j,                  \* index of the inner range loop (0-based, as in Go)
    prev,               \* index of the previous kept vertex (0-based)
    path,               \* the clipper path being built
    polyList,           \* the paths handed to the union
    resultPolys,        \* the polygon tree Execute2 returned (parent vector)
    polysForNextRound,  \* slice of nodes, nil or not
    layerParts,         \* the parts emitted so far
    partPc,             \* "ingest" | "walk" | "done" | "failed" | "idle"
    \* ---- Inset
    offset, insetCount, \* arguments
    insetNr,            \* loop counter
    insets,             \* [wall][inset] -> list of paths
    executed,           \* the calls made to the offset engine: delta and result
    insetPc,            \* "loop" | "done" | "idle"
    \* ---- Fill / getLinearFill
    paths, lineWidth, overlapPercentage,   \* arguments
    minScanlines, maxScanlines,            \* paths.Size()
    overlap,            \* overlap distance, in 1/100 um
    x, numLine, lines,  \* scan line generation
    pathNr,             \* position of the clip loop (1-based)
    inset,              \* the clip region of the last iteration
    result,             \* getLinearFill's result so far (clipper paths)
    filled,             \* what Fill returned
    fillPc,             \* "lines" | "clip" | "done" | "idle"
    \* ---- attribute accessors
    attributes,         \* layer.Attributes()
    returned,           \* what the last accessor call returned
    \* ---- perimeterModifier.Modify
    layers,             \* the layer stack
    options,            \* m.options
    layerNr, partNr,    \* loop positions (0-based)
    insetParts,         \* InsetLayer's result for the current layer
    overlapPerimeter,   \* [part] -> list of layer parts
    panicAt,            \* the expression that panicked, "" if none
    modPc               \* "layer" | "part" | "done" | "panic" | "idle"

partVars  == <<layer, polyNr, j, prev, path, polyList, resultPolys,
               polysForNextRound, layerParts, partPc>>
insetVars == <<offset, insetCount, insetNr, insets, executed, insetPc>>
fillVars  == <<paths, lineWidth, overlapPercentage, minScanlines, maxScanlines,
               overlap, x, numLine, lines, pathNr, inset, result, filled, fillPc>>
attrVars  == <<attributes, returned>>
modVars   == <<layers, options, layerNr, partNr, insetParts, overlapPerimeter,
               panicAt, modPc>>
vars      == <<partVars, insetVars, fillVars, attrVars, modVars>>

\* A Go slice that may be nil: append makes it non-nil.
NilSlice == [nil |-> TRUE, s |-> <<>>]

IdlePartition ==
    /\ layer = <<>> /\ polyNr = 0 /\ j = 0 /\ prev = 0 /\ path = <<>>
    /\ polyList = <<>> /\ resultPolys = <<>> /\ polysForNextRound = NilSlice
    /\ layerParts = <<>> /\ partPc = "idle"
IdleInset ==
    /\ offset = 0 /\ insetCount = 0 /\ insetNr = 0 /\ insets = <<>>
    /\ executed = <<>> /\ insetPc = "idle"
IdleFill ==
    /\ paths = <<>> /\ lineWidth = 0 /\ overlapPercentage = 0
    /\ minScanlines = <<0, 0>> /\ maxScanlines = <<0, 0>> /\ overlap = 0
    /\ x = 0 /\ numLine = 0 /\ lines = <<>> /\ pathNr = 0 /\ inset = <<>>
    /\ result = <<>> /\ filled = <<>> /\ fillPc = "idle"
NoCall == [fn |-> "none", val |-> "nil", err |-> "nil"]
IdleAttr == attributes = <<>> /\ returned = NoCall
IdleModify ==
    /\ layers = <<>> /\ options = <<>> /\ layerNr = 0 /\ partNr = 0
    /\ insetParts = <<>> /\ overlapPerimeter = <<>> /\ panicAt = ""
    /\ modPc = "idle"

(***************************************************************************)
(* GenerateLayerParts                                                      *)
(***************************************************************************)
MaxVertices == 3       \* vertices of one input layer, over all its loops
MaxNodes == 4          \* nodes of the polygon tree the union returns

\* Distance below or at which a vertex is filtered (the literal at the call).
DedupDist == 100

\* Vertices of the input loops.  From (0,0): (60,80) is at exactly 100,
\* (99,0) at 99 and (101,0) at 101; (99,0) and (101,0) are 2 apart.
PointSet == {<<0, 0>>, <<60, 80>>, <<99, 0>>, <<101, 0>>}

PolygonsUpTo(n) == UNION {[1..k -> PointSet] : k \in 1..n}

RECURSIVE LayersUpTo(_)
LayersUpTo(n) ==
    {<<>>} \cup UNION {{<<p>> \o r : r \in LayersUpTo(n - Len(p))} :
                          p \in PolygonsUpTo(n)}

\* data.MicroPoint.Sub
Sub(p, q) == <<p[1] - q[1], p[2] - q[2]>>

\* data.MicroPoint.ShorterThanOrEqual: integer squared comparison.
ShorterThanOrEqual(v, d) == v[1] * v[1] + v[2] * v[2] <= d * d

\* clipperPoint / microPoint: the two point representations.
clipperPoint(p) == [X |-> p[1], Y |-> p[2]]
microPoint(p) == <<p.X, p.Y>>

\* microPath with simplify = false.
microPath(p) == [i \in 1..Len(p) |-> microPoint(p[i])]

\* The filter of line 166, with a strict comparison instead.
TooNearStrict(layerPoint, prevPoint) ==
    LET v == Sub(layerPoint, prevPoint)
    IN  v[1] * v[1] + v[2] * v[2] < DedupDist * DedupDist

\* "filter too near points": the vertex is dropped when this holds.
TooNear(layerPoint, prevPoint) ==
    ShorterThanOrEqual(Sub(layerPoint, prevPoint), DedupDist)

\* One iteration of the loop over the points of the current polygon.
IngestPoint ==
    /\ partPc = "ingest"
    /\ polyNr <= Len(layer)
    /\ j < Len(layer[polyNr])
    /\ LET layerPolygon == layer[polyNr]
           layerPoint == layerPolygon[j + 1]
       IN  IF j = 0
           THEN /\ path' = Append(path, clipperPoint(layerPolygon[1]))
                /\ prev' = prev
           ELSE IF TooNear(layerPoint, layerPolygon[prev + 1])
           THEN /\ path' = path
                /\ prev' = prev
           ELSE /\ path' = Append(path, clipperPoint(layerPoint))
                /\ prev' = j
    /\ j' = j + 1
    /\ UNCHANGED <<layer, polyNr, polyList, resultPolys, polysForNextRound,
                   layerParts, partPc>>
    /\ UNCHANGED <<insetVars, fillVars, attrVars, modVars>>

\* The end of the inner loop: the path joins polyList, the next polygon starts.
IngestPolygonEnd ==
    /\ partPc = "ingest"
    /\ polyNr <= Len(layer)
    /\ j = Len(layer[polyNr])
    /\ polyList' = Append(polyList, path)
    /\ polyNr' = polyNr + 1
    /\ path' = <<>> /\ prev' = 0 /\ j' = 0
    /\ UNCHANGED <<layer, resultPolys, polysForNextRound, layerParts, partPc>>
    /\ UNCHANGED <<insetVars, fillVars, attrVars, modVars>>

\* Polygon trees: node i has parent tree[i] < i, 0 is the root (resultPolys).
Trees(n) == UNION {{t \in [1..k -> 0..(k - 1)] : \A i \in 1..k : t[i] < i} :
                      k \in 0..n}

\* PolyNode.Childs() of node p, in the engine's order.
Childs(tree, p) ==
    SelectSeq([i \in 1..Len(tree) |-> i], LAMBDA i : tree[i] = p)

\* PolyNode.Contour(): each node's contour is told apart by one vertex.
Contour(node) == <<[X |-> node, Y |-> 0]>>

\* The union (Execute2) and the start of the walk.  The engine's answer is
\* any tree, or a failure.  The input loops are not read after this point.
Union ==
    /\ partPc = "ingest"
    /\ polyNr > Len(layer)
    /\ \E ok \in BOOLEAN, tree \in Trees(MaxNodes) :
         IF ok
         THEN /\ resultPolys' = tree
              /\ polysForNextRound' =
                     [nil |-> FALSE, s |-> Childs(tree, 0)]
              /\ partPc' = "walk"
         ELSE /\ tree = <<>>
              /\ resultPolys' = <<>>
              /\ polysForNextRound' = NilSlice
              /\ partPc' = "failed"
    /\ layer' = <<>> /\ polyList' = <<>> /\ polyNr' = 0
    /\ UNCHANGED <<j, prev, path, layerParts>>
    /\ UNCHANGED <<insetVars, fillVars, attrVars, modVars>>

\* holes of p: the contours of its children.
HolesOf(tree, p) ==
    LET c == Childs(tree, p)
    IN  [i \in 1..Len(c) |-> microPath(Contour(c[i]))]

\* Flattening of a sequence of sequences.
RECURSIVE Flatten(_)
Flatten(ss) == IF ss = <<>> THEN <<>> ELSE Head(ss) \o Flatten(Tail(ss))

\* The same, pushing the children of p instead (an odd-depth node would
\* become an outline).
GrandChildsDirect(tree, p) == Childs(tree, p)

\* The nodes pushed for the next round while p is processed: the children
\* of p's children.
GrandChilds(tree, p) ==
    LET c == Childs(tree, p)
    IN  Flatten([i \in 1..Len(c) |-> Childs(tree, c[i])])

\* data.NewUnknownLayerPart
NewUnknownLayerPart(outline, holes) == [outline |-> outline, holes |-> holes]

\* One round of the walk: every node of thisRound becomes a part.
WalkRound ==
    /\ partPc = "walk"
    /\ ~polysForNextRound.nil
    /\ LET thisRound == polysForNextRound.s
           pushed == Flatten([i \in 1..Len(thisRound) |->
                                 GrandChilds(resultPolys, thisRound[i])])
       IN  /\ polysForNextRound' =
                  IF pushed = <<>> THEN NilSlice
                  ELSE [nil |-> FALSE, s |-> pushed]
           /\ layerParts' = layerParts \o
                  [i \in 1..Len(thisRound) |->
                      NewUnknownLayerPart(
                          microPath(Contour(thisRound[i])),
                          HolesOf(resultPolys, thisRound[i]))]
    /\ UNCHANGED <<layer, polyNr, j, prev, path, polyList, resultPolys, partPc>>
    /\ UNCHANGED <<insetVars, fillVars, attrVars, modVars>>

\* polysForNextRound == nil: break, and return the partitioned layer.
WalkEnd ==
    /\ partPc = "walk"
    /\ polysForNextRound.nil
    /\ partPc' = "done"
    /\ UNCHANGED <<layer, polyNr, j, prev, path, polyList, resultPolys,
                   polysForNextRound, layerParts>>
    /\ UNCHANGED <<insetVars, fillVars, attrVars, modVars>>

InitPartition ==
    /\ layer \in LayersUpTo(MaxVertices)
    /\ polyNr = 1 /\ j = 0 /\ prev = 0 /\ path = <<>> /\ polyList = <<>>
    /\ resultPolys = <<>> /\ polysForNextRound = NilSlice
    /\ layerParts = <<>> /\ partPc = "ingest"
    /\ IdleInset /\ IdleFill /\ IdleAttr /\ IdleModify

NextPartition ==
    \/ IngestPoint
    \/ IngestPolygonEnd
    \/ Union
    \/ WalkRound
    \/ WalkEnd

SpecPartition == InitPartition /\ [][NextPartition]_vars

\* The handler runs to its end once called.  The walk reads the tree only,
\* never the input loops, so the loops are kept to at most one vertex here.
InitPartitionWalk == InitPartition /\ layer \in LayersUpTo(1)

FairSpecPartition ==
    InitPartitionWalk /\ [][NextPartition]_vars /\ WF_vars(NextPartition)

(***************************************************************************)
(* Claims about GenerateLayerParts                                         *)
(***************************************************************************)
\* Squared Euclidean distance of two vertices.
Dist2(p, q) == (p[1] - q[1]) * (p[1] - q[1]) + (p[2] - q[2]) * (p[2] - q[2])

\* A step of the loop over the points of one polygon.
IsIngestStep == partPc = "ingest" /\ j' = j + 1

\* The last vertex kept so far.
LastKept == microPoint(path[Len(path)])

\* C1 (as stated): the first vertex of every loop is kept, and a later vertex
\* is kept exactly when it is at 100 um or more from the previous kept
\* vertex (kept at exactly 100 um, dropped at 99 um).
C1_KeptFrom100 ==
    [][IsIngestStep =>
         LET pt == layer[polyNr][j + 1]
         IN  IF j = 0
             THEN path' = <<clipperPoint(pt)>>
             ELSE IF Dist2(pt, LastKept) >= 100 * 100
             THEN path' = Append(path, clipperPoint(pt))
             ELSE path' = path]_vars

\* C1 (amended): the first vertex of every loop is kept, and a later vertex
\* is kept exactly when it is farther than 100 um from the previous kept
\* vertex: it is dropped at 99 um and at exactly 100 um, kept at 101 um.
C1_KeptBeyond100 ==
    [][IsIngestStep =>
         LET pt == layer[polyNr][j + 1]
         IN  IF j = 0
             THEN path' = <<clipperPoint(pt)>>
             ELSE IF Dist2(pt, LastKept) > 100 * 100
             THEN path' = Append(path, clipperPoint(pt))
             ELSE path' = path]_vars

\* A loop whose second vertex is at exactly 100 um from the first has been
\* read up to its third vertex, which is 101 um from the first and kept:
\* the second one was dropped, the third compared with the first.
C1_Witness ==
    /\ partPc = "ingest" /\ polyNr = 1 /\ Len(layer) >= 1 /\ j = 3
    /\ Dist2(layer[1][1], layer[1][2]) = 100 * 100
    /\ Dist2(layer[1][1], layer[1][3]) = 101 * 101
    /\ path = <<clipperPoint(layer[1][1]), clipperPoint(layer[1][3])>>

RECURSIVE Depth(_, _)
Depth(tree, n) == IF tree[n] = 0 THEN 0 ELSE 1 + Depth(tree, tree[n])

EvenNodes(tree) == {n \in 1..Len(tree) : Depth(tree, n) % 2 = 0}

\* part is the layer part of node n: n's contour with the contours of n's
\* direct children, each once, as holes.
IsPartOf(tree, part, n) ==
    LET kids == {c \in 1..Len(tree) : tree[c] = n}
    IN  /\ part.outline = <<<<n, 0>>>>
        /\ Len(part.holes) = Cardinality(kids)
        /\ {part.holes[i] : i \in 1..Len(part.holes)} = {<<<<c, 0>>>> : c \in kids}

C2_Parts ==
    partPc \in {"walk", "done"} =>
        /\ \A k \in 1..Len(layerParts) :
               \E n \in EvenNodes(resultPolys) :
                   IsPartOf(resultPolys, layerParts[k], n)
        /\ \A k1, k2 \in 1..Len(layerParts) :
               k1 # k2 => layerParts[k1].outline # layerParts[k2].outline
        /\ partPc = "done" =>
               \A n \in EvenNodes(resultPolys) :
                   \E k \in 1..Len(layerParts) :
                       IsPartOf(resultPolys, layerParts[k], n)

\* C2: for every polygon tree the walk emits exactly one part per even-depth
\* node, with that node's contour as outline and its direct children's
\* contours as holes; no odd-depth node becomes an outline, none is emitted
\* twice or left out, and the walk ends.
C2_TreeWalk == [](C2_Parts) /\ ((partPc = "walk") ~> (partPc = "done"))

\* Outer / hole / island: the walk is over with 2 parts, the ring with one
\* hole and the island with none.
C2_Witness ==
    /\ partPc = "done"
    /\ resultPolys = <<0, 1, 2>>
    /\ Len(layerParts) = 2
    /\ Len(layerParts[1].holes) = 1
    /\ Len(layerParts[2].holes) = 0

(***************************************************************************)
(* Inset                                                                   *)
(***************************************************************************)
MaxInsetCount == 3     \* largest insetCount
MaxWalls == 2          \* most paths one offset returns

\* Values of the offset argument (extrusion widths, one of them negative).
OffsetValues == {-401, 1, 400, 401}

\* Go's integer division: the quotient is truncated toward zero.
GoDiv(a, b) ==
    IF (a >= 0) = (b > 0) THEN (IF a >= 0 THEN a ELSE -a) \div (IF b > 0 THEN b ELSE -b)
    ELSE -((IF a >= 0 THEN a ELSE -a) \div (IF b > 0 THEN b ELSE -b))

\* The delta with the half width inside the parenthesis.
InsetDeltaGrouped(off, nr) == -(off * nr - GoDiv(off, 2))

\* The argument of o.Execute: float64(-int(offset)*insetNr) - float64(offset/2).
\* Both operands are integers, so the float64 value is that integer.
InsetDelta(off, nr) == (-off) * nr - GoDiv(off, 2)

\* A path the offset engine returns, told apart by the step and its position.
EnginePath(nr, wallNr) == <<[X |-> nr, Y |-> wallNr]>>

\* data.Path.Simplify(-1, -1): drops vertices near the segment joining their
\* neighbours; a one-vertex path has none to drop.
Simplify(p) == p

\* microPaths with simplify = true: one path out per path in, same order.
microPathsSimplified(ps) == [i \in 1..Len(ps) |-> Simplify(microPath(ps[i]))]

\* The padding loop run for one slot too many.
PadWallOneMore(wallInsets, nr) ==
    wallInsets \o [i \in 1..(nr + 2 - Len(wallInsets)) |-> <<>>]

\* for len(insets[wallNr]) <= insetNr { append(insets[wallNr], []data.Path{}) }
PadWall(wallInsets, nr) ==
    wallInsets \o [i \in 1..(nr + 1 - Len(wallInsets)) |-> <<>>]

\* The body of the loop over the walls (wallNr is 0-based, as in Go).
StoreWall(ins, wallNr, nr, wall) ==
    LET grown == IF Len(ins) <= wallNr THEN Append(ins, <<>>) ELSE ins
        padded == PadWall(grown[wallNr + 1], nr)
    IN  [grown EXCEPT ![wallNr + 1] =
            [padded EXCEPT ![nr + 1] = Append(@, wall)]]

RECURSIVE StoreWalls(_, _, _, _)
StoreWalls(ins, walls, wallNr, nr) ==
    IF wallNr >= Len(walls) THEN ins
    ELSE StoreWalls(StoreWall(ins, wallNr, nr, walls[wallNr + 1]),
                    walls, wallNr + 1, nr)

\* One iteration of the loop over insetNr: the engine returns any number of
\* paths; none ends the loop.
InsetStep ==
    /\ insetPc = "loop"
    /\ insetNr < insetCount
    /\ \E n \in 0..MaxWalls :
         LET allNewInsets == [w \in 1..n |-> EnginePath(insetNr, w - 1)]
         IN  /\ executed' = Append(executed,
                    [delta |-> InsetDelta(offset, insetNr),
                     result |-> allNewInsets])
             /\ IF Len(allNewInsets) <= 0
                THEN /\ insetPc' = "done"
                     /\ UNCHANGED <<insets, insetNr>>
                ELSE /\ insets' = StoreWalls(insets,
                            microPathsSimplified(allNewInsets), 0, insetNr)
                     /\ insetNr' = insetNr + 1
                     /\ insetPc' = insetPc
    /\ UNCHANGED <<offset, insetCount>>
    /\ UNCHANGED <<partVars, fillVars, attrVars, modVars>>

\* insetNr reached insetCount: return insets.
InsetEnd ==
    /\ insetPc = "loop"
    /\ insetNr >= insetCount
    /\ insetPc' = "done"
    /\ UNCHANGED <<offset, insetCount, insetNr, insets, executed>>
    /\ UNCHANGED <<partVars, fillVars, attrVars, modVars>>

InitInset ==
    /\ offset \in OffsetValues
    /\ insetCount \in 0..MaxInsetCount
    /\ insetNr = 0 /\ insets = <<>> /\ executed = <<>> /\ insetPc = "loop"
    /\ IdlePartition /\ IdleFill /\ IdleAttr /\ IdleModify

NextInset ==
    \/ InsetStep
    \/ InsetEnd

SpecInset == InitInset /\ [][NextInset]_vars

(***************************************************************************)
(* Claims about Inset                                                      *)
(***************************************************************************)
\* Offset step k returned a w-th path (both 0-based).
Produced(k, w) == k < Len(executed) /\ w < Len(executed[k + 1].result)

\* That path, as stored.
StoredPath(k, w) == <<<<k, w>>>>

\* C5: the path step k returned as its w-th output is at insets[w][k] and
\* nowhere else; the slots of a wall before its first step exist and are
\* empty; no wall has more than insetCount slots.
C5_InsetAligned ==
    /\ \A k \in 0..(Len(executed) - 1) :
         \A w \in 0..(Len(executed[k + 1].result) - 1) :
             /\ w < Len(insets)
             /\ k < Len(insets[w + 1])
             /\ insets[w + 1][k + 1] = <<StoredPath(k, w)>>
             /\ \A k0 \in 0..(k - 1) :
                    ~Produced(k0, w) => insets[w + 1][k0 + 1] = <<>>
    /\ \A w \in 1..Len(insets) :
         /\ Len(insets[w]) <= insetCount
         /\ \A k \in 1..Len(insets[w]) :
                \A i \in 1..Len(insets[w][k]) :
                    /\ insets[w][k][i] = StoredPath(k - 1, w - 1)
                    /\ Produced(k - 1, w - 1)

\* A second wall appeared at the third step only: its first two slots are
\* there and empty.
C5_Witness ==
    /\ insetPc = "done"
    /\ Len(executed) = 3
    /\ Len(executed[1].result) = 1 /\ Len(executed[2].result) = 1
    /\ Len(executed[3].result) = 2
    /\ insets[2] = <<<<>>, <<>>, <<StoredPath(2, 1)>>>>

\* C6: for offset > 0, step k asks the engine for an inward offset of
\* offset/2 + k*offset (offset/2 the integer quotient): 200 then 600 for
\* offset = 400, strictly growing with k.
C6_InsetDistance ==
    offset > 0 =>
        \A i \in 1..Len(executed) :
            /\ -executed[i].delta = (offset \div 2) + (i - 1) * offset
            /\ i > 1 => -executed[i].delta > -executed[i - 1].delta
            /\ (offset = 400 /\ i = 1) => executed[i].delta = -200
            /\ (offset = 400 /\ i = 2) => executed[i].delta = -600

\* Two steps were made with offset = 400.
C6_Witness ==
    /\ offset = 400
    /\ Len(executed) >= 2
    /\ executed[1].delta = -200 /\ executed[2].delta = -600

(***************************************************************************)
(* Fill / getLinearFill                                                    *)
(*                                                                         *)
(* The regions are axis-aligned rectangles, on which the engine's offset   *)
(* and intersection are computed exactly.                                  *)
(***************************************************************************)
MaxPaths == 2          \* most paths of one Fill call

XCoords == {0, 1, 3, 4}
YCoords == {0, 1, 2}
LineWidths == {1, 2}
OverlapPercentages == {0, 50, 100}

\* A closed rectangular path.
RectPath(x1, y1, x2, y2) == <<<<x1, y1>>, <<x2, y1>>, <<x2, y2>>, <<x1, y2>>>>

RectPaths ==
    UNION {{RectPath(x1, y1, x2, y2) :
               x2 \in {c \in XCoords : c > x1}, y2 \in {c \in YCoords : c > y1}} :
           x1 \in XCoords, y1 \in YCoords}

Min(S) == CHOOSE m \in S : \A e \in S : m <= e
Max(S) == CHOOSE m \in S : \A e \in S : m >= e

\* data.Paths.Size: the bounding box over all points of all paths.
Size(ps) ==
    LET xs == {ps[i][k][1] : i \in 1..Len(ps), k \in 1..4}
        ys == {ps[i][k][2] : i \in 1..Len(ps), k \in 1..4}
    IN  <<<<Min(xs), Min(ys)>>, <<Max(xs), Max(ys)>>>>

\* clipperPaths
clipperPath(p) == [i \in 1..Len(p) |-> clipperPoint(p[i])]
clipperPaths(ps) == [i \in 1..Len(ps) |-> clipperPath(ps[i])]

\* microPaths with simplify = false
microPaths(ps) == [i \in 1..Len(ps) |-> microPath(ps[i])]

\* The overlap with the percentage not complemented.
OverlapOfPercent(lw, pct) == lw * pct

\* overlap := float32(lineWidth) * (100.0 - float32(overlapPercentage)) / 100.0
\* kept in 1/100 um, the division left to the reader of the value.
Overlap(lw, pct) == lw * (100 - pct)

\* The scan line with the direction test on x instead of numLine.
ScanLineByX(xx, nr, minS, maxS) ==
    IF xx % 2 = 1
    THEN <<[X |-> xx, Y |-> maxS[2]], [X |-> xx, Y |-> minS[2]]>>
    ELSE <<[X |-> xx, Y |-> minS[2]], [X |-> xx, Y |-> maxS[2]]>>

\* One scan line: odd lines run from max.y down, even ones from min.y up.
ScanLine(xx, nr, minS, maxS) ==
    IF nr % 2 = 1
    THEN <<[X |-> xx, Y |-> maxS[2]], [X |-> xx, Y |-> minS[2]]>>
    ELSE <<[X |-> xx, Y |-> minS[2]], [X |-> xx, Y |-> maxS[2]]>>

\* The engine rounds a coordinate to the nearest integer, halves away from 0.
Round100(v) == IF v >= 0 THEN (v + 50) \div 100 ELSE -((50 - v) \div 100)

\* The bounding rectangle of a clipper path.
RectOf(cp) ==
    [x1 |-> Min({cp[k].X : k \in 1..Len(cp)}), x2 |-> Max({cp[k].X : k \in 1..Len(cp)}),
     y1 |-> Min({cp[k].Y : k \in 1..Len(cp)}), y2 |-> Max({cp[k].Y : k \in 1..Len(cp)})]

\* ClipperOffset.Execute(delta) on one rectangle, square joins, delta <= 0
\* (delta100 is the delta in 1/100 um): each side moves inward by -delta;
\* a rectangle that closes up vanishes.
OffsetExecute(cp, delta100) ==
    LET r == RectOf(cp)
        nx1 == Round100(100 * r.x1 - delta100)
        nx2 == Round100(100 * r.x2 + delta100)
        ny1 == Round100(100 * r.y1 - delta100)
        ny2 == Round100(100 * r.y2 + delta100)
    IN  IF nx1 < nx2 /\ ny1 < ny2
        THEN <<clipperPath(RectPath(nx1, ny1, nx2, ny2))>>
        ELSE <<>>

\* The part of one open scan line inside one closed rectangle, if any.
ClipLine(line, cp) ==
    LET r == RectOf(cp)
        xx == line[1].X
        lo == Max({Min({line[1].Y, line[2].Y}), r.y1})
        hi == Min({Max({line[1].Y, line[2].Y}), r.y2})
    IN  IF r.x1 <= xx /\ xx <= r.x2 /\ lo < hi
        THEN IF line[1].Y <= line[2].Y
             THEN <<<<[X |-> xx, Y |-> lo], [X |-> xx, Y |-> hi]>>>>
             ELSE <<<<[X |-> xx, Y |-> hi], [X |-> xx, Y |-> lo]>>>>
        ELSE <<>>

\* Execute2(CtIntersection, PftEvenOdd, PftEvenOdd) with the lines as open
\* subjects and a clip of at most one rectangle: the contours of the tree's
\* children.
Intersection(ls, clip) ==
    IF clip = <<>> THEN <<>>
    ELSE LET hit == SelectSeq(ls, LAMBDA l : ClipLine(l, clip[1]) # <<>>)
         IN  [i \in 1..Len(hit) |-> ClipLine(hit[i], clip[1])[1]]

\* Fill up to the loop: paths.Size(), clipperPaths, the overlap.
FillStart ==
    /\ fillPc = "start"
    /\ minScanlines' = Size(paths)[1]
    /\ maxScanlines' = Size(paths)[2]
    /\ overlap' = Overlap(lineWidth, overlapPercentage)
    /\ x' = Size(paths)[1][1]
    /\ numLine' = 0
    /\ lines' = <<>>
    /\ fillPc' = "lines"
    /\ UNCHANGED <<paths, lineWidth, overlapPercentage, pathNr, inset, result,
                   filled>>
    /\ UNCHANGED <<partVars, insetVars, attrVars, modVars>>

\* One iteration of "generate the lines".
GenLine ==
    /\ fillPc = "lines"
    /\ x <= maxScanlines[1]
    /\ lines' = Append(lines, ScanLine(x, numLine, minScanlines, maxScanlines))
    /\ numLine' = numLine + 1
    /\ x' = x + lineWidth
    /\ UNCHANGED <<paths, lineWidth, overlapPercentage, minScanlines,
                   maxScanlines, overlap, pathNr, inset, result, filled,
                   fillPc>>
    /\ UNCHANGED <<partVars, insetVars, attrVars, modVars>>

\* The loop's condition fails: on to the clipping.
GenEnd ==
    /\ fillPc = "lines"
    /\ x > maxScanlines[1]
    /\ fillPc' = "clip"
    /\ pathNr' = 1
    /\ UNCHANGED <<paths, lineWidth, overlapPercentage, minScanlines,
                   maxScanlines, overlap, x, numLine, lines, inset, result,
                   filled>>
    /\ UNCHANGED <<partVars, insetVars, attrVars, modVars>>

\* The clip region of one path: its inset "only if needed".
ClipRegion(poly, pct, ov) ==
    IF pct # 0 THEN OffsetExecute(poly, -ov) ELSE <<poly>>

\* One iteration of the loop over polys: the path alone is the clip region.
ClipPath ==
    /\ fillPc = "clip"
    /\ pathNr <= Len(paths)
    /\ \E clip \in {ClipRegion(clipperPath(paths[pathNr]), overlapPercentage,
                                overlap)} :
         /\ inset' = clip
         /\ result' = result \o Intersection(lines, clip)
    /\ pathNr' = pathNr + 1
    /\ UNCHANGED <<paths, lineWidth, overlapPercentage, minScanlines,
                   maxScanlines, overlap, x, numLine, lines, filled, fillPc>>
    /\ UNCHANGED <<partVars, insetVars, attrVars, modVars>>

\* return result; Fill converts it with microPaths.
FillEnd ==
    /\ fillPc = "clip"
    /\ pathNr > Len(paths)
    /\ filled' = microPaths(result)
    /\ fillPc' = "done"
    /\ UNCHANGED <<paths, lineWidth, overlapPercentage, minScanlines,
                   maxScanlines, overlap, x, numLine, lines, pathNr, inset,
                   result>>
    /\ UNCHANGED <<partVars, insetVars, attrVars, modVars>>

InitFill ==
    /\ paths \in UNION {[1..n -> RectPaths] : n \in 1..MaxPaths}
    /\ lineWidth \in LineWidths
    /\ overlapPercentage \in OverlapPercentages
    /\ minScanlines = <<0, 0>> /\ maxScanlines = <<0, 0>> /\ overlap = 0
    /\ x = 0 /\ numLine = 0 /\ lines = <<>> /\ pathNr = 0 /\ inset = <<>>
    /\ result = <<>> /\ filled = <<>> /\ fillPc = "start"
    /\ IdlePartition /\ IdleInset /\ IdleAttr /\ IdleModify

NextFill ==
    \/ FillStart
    \/ GenLine
    \/ GenEnd
    \/ ClipPath
    \/ FillEnd

SpecFill == InitFill /\ [][NextFill]_vars

\* Fill runs to its end once called.  The scan lines depend on the bounding
\* box only, so one path is enough here.
InitFillOnePath == InitFill /\ Len(paths) = 1

FairSpecFill == InitFillOnePath /\ [][NextFill]_vars /\ WF_vars(NextFill)

(***************************************************************************)
(* Claims about Fill                                                       *)
(***************************************************************************)
\* The bounding rectangle of a path of the input.
Box(p) == RectOf(clipperPath(p))

\* The point (xx, y + 1/2) is strictly inside path p.
StrictlyInside(p, xx, y) ==
    /\ Box(p).x1 < xx /\ xx < Box(p).x2
    /\ Box(p).y1 <= y /\ y + 1 <= Box(p).y2

\* The point (xx, y + 1/2) is on the contour of path p.
OnContour(p, xx, y) ==
    /\ xx \in {Box(p).x1, Box(p).x2}
    /\ Box(p).y1 <= y /\ y + 1 <= Box(p).y2

\* The point (xx, y + 1/2) is off every contour and inside an even number
\* of the paths: outside the even-odd region, for instance inside a hole.
OutsideRegion(xx, y) ==
    /\ \A i \in 1..Len(paths) : ~OnContour(paths[i], xx, y)
    /\ Cardinality({i \in 1..Len(paths) : StrictlyInside(paths[i], xx, y)}) % 2 = 0

\* C3: with overlapPercentage = 0 no emitted segment covers a point outside
\* the even-odd interior of the paths (a point inside a hole).
C3_FillInsideRegion ==
    (fillPc = "done" /\ overlapPercentage = 0) =>
        \A i \in 1..Len(filled) :
            LET seg == filled[i]
                lo == Min({seg[1][2], seg[2][2]})
                hi == Max({seg[1][2], seg[2][2]})
            IN  \A y \in lo..(hi - 1) : ~OutsideRegion(seg[1][1], y)

\* Number of scan lines of the bounding box.
LineCount == (maxScanlines[1] - minScanlines[1]) \div lineWidth + 1

\* Segment k (from 0) of the raw scan line set, as the claim has it.
RawSegment(k) ==
    LET xk == minScanlines[1] + k * lineWidth
    IN  IF k % 2 = 0
        THEN <<[X |-> xk, Y |-> minScanlines[2]], [X |-> xk, Y |-> maxScanlines[2]]>>
        ELSE <<[X |-> xk, Y |-> maxScanlines[2]], [X |-> xk, Y |-> minScanlines[2]]>>

GoesUp(line) == line[1].Y < line[2].Y

C4_Lines ==
    fillPc \in {"lines", "clip", "done"} =>
        /\ Len(lines) <= LineCount
        /\ \A k \in 0..(Len(lines) - 1) :
               /\ minScanlines[1] + k * lineWidth <= maxScanlines[1]
               /\ lines[k + 1] = RawSegment(k)
        /\ \A k \in 1..(Len(lines) - 1) : GoesUp(lines[k]) # GoesUp(lines[k + 1])
        /\ fillPc \in {"clip", "done"} => Len(lines) = LineCount

\* C4: the raw scan line set holds one 2-point segment per
\* x = min.x + k*lineWidth <= max.x, floor((max.x - min.x)/lineWidth) + 1 of
\* them in increasing k, even k upward and odd k downward, and the loop
\* that builds it ends.
C4_ScanLines == [](C4_Lines) /\ ((fillPc = "lines") ~> (fillPc = "clip"))

\* Three lines, at x = 0, 2 and 4, were generated for lineWidth = 2.
C4_Witness ==
    /\ fillPc = "clip" /\ lineWidth = 2
    /\ minScanlines[1] = 0 /\ maxScanlines[1] = 4
    /\ Len(lines) = 3
    /\ GoesUp(lines[1]) /\ ~GoesUp(lines[2]) /\ GoesUp(lines[3])

\* The segments of the scan lines inside path p itself: line k, if its x is
\* within p, cut to p's height, upward for even k.
SegmentsWithin(p) ==
    LET ks == SelectSeq([k \in 1..Len(lines) |-> k - 1],
                        LAMBDA k : /\ Box(p).x1 <= minScanlines[1] + k * lineWidth
                                   /\ minScanlines[1] + k * lineWidth <= Box(p).x2)
    IN  [n \in 1..Len(ks) |->
            LET xk == minScanlines[1] + ks[n] * lineWidth
            IN  IF ks[n] % 2 = 0
                THEN <<<<xk, Box(p).y1>>, <<xk, Box(p).y2>>>>
                ELSE <<<<xk, Box(p).y2>>, <<xk, Box(p).y1>>>>]

\* C7: with overlapPercentage = 100 the overlap distance is 0, every path is
\* clipped against itself, and the result is that of the un-shrunk paths.
C7_FullOverlap ==
    overlapPercentage = 100 =>
        /\ fillPc # "start" => overlap = 0
        /\ (fillPc = "clip" /\ pathNr > 1) =>
               microPaths(inset) = <<paths[pathNr - 1]>>
        /\ fillPc = "done" =>
               filled = Flatten([i \in 1..Len(paths) |-> SegmentsWithin(paths[i])])

\* A Fill of two paths with overlapPercentage = 100 returned segments.
C7_Witness ==
    /\ fillPc = "done" /\ overlapPercentage = 100
    /\ Len(paths) = 2 /\ Len(filled) >= 2

(***************************************************************************)
(* The typed accessors Perimeters and OverlapPerimeters                    *)
(***************************************************************************)
\* Keys of the attribute bag, and the dynamic types a value may have.
AttributeKeys == {"perimeters", "overlapPerimeters", "infill"}
AttributeTypes == {"clip.OffsetResult", "[][]data.LayerPart", "int"}
AttributeValues == {"v1", "v2"}

\* Attribute bags: some of the keys, each with a typed value.
AttributeBags ==
    UNION {[ks -> [type : AttributeTypes, val : AttributeValues]] :
              ks \in SUBSET AttributeKeys}

\* OverlapPerimeters reading the key of Perimeters.
OverlapPerimetersOtherKey(attrs) ==
    IF "perimeters" \in DOMAIN attrs
    THEN IF attrs["perimeters"].type # "[][]data.LayerPart"
         THEN <<"nil", "the attribute overlapPerimeters has the wrong datatype">>
         ELSE <<attrs["perimeters"].val, "nil">>
    ELSE <<"nil", "nil">>

\* OverlapPerimeters(layer): the value and the error.
OverlapPerimeters(attrs) ==
    IF "overlapPerimeters" \in DOMAIN attrs
    THEN IF attrs["overlapPerimeters"].type # "[][]data.LayerPart"
         THEN <<"nil", "the attribute overlapPerimeters has the wrong datatype">>
         ELSE <<attrs["overlapPerimeters"].val, "nil">>
    ELSE <<"nil", "nil">>

\* Perimeters(layer): the value and the error.
Perimeters(attrs) ==
    IF "perimeters" \in DOMAIN attrs
    THEN IF attrs["perimeters"].type # "clip.OffsetResult"
         THEN <<"nil", "the attribute perimeters has the wrong datatype">>
         ELSE <<attrs["perimeters"].val, "nil">>
    ELSE <<"nil", "nil">>

CallPerimeters ==
    /\ returned' = [fn |-> "Perimeters", val |-> Perimeters(attributes)[1],
                    err |-> Perimeters(attributes)[2]]
    /\ UNCHANGED attributes
    /\ UNCHANGED <<partVars, insetVars, fillVars, modVars>>

CallOverlapPerimeters ==
    /\ returned' = [fn |-> "OverlapPerimeters",
                    val |-> OverlapPerimeters(attributes)[1],
                    err |-> OverlapPerimeters(attributes)[2]]
    /\ UNCHANGED attributes
    /\ UNCHANGED <<partVars, insetVars, fillVars, modVars>>

InitAttr ==
    /\ attributes \in AttributeBags
    /\ returned = NoCall
    /\ IdlePartition /\ IdleInset /\ IdleFill /\ IdleModify

NextAttr ==
    \/ CallPerimeters
    \/ CallOverlapPerimeters

SpecAttr == InitAttr /\ [][NextAttr]_vars

(***************************************************************************)
(* Claims about the accessors                                              *)
(***************************************************************************)
\* What an accessor for key with the expected type must have returned.
ReturnedFor(key, type) ==
    IF key \notin DOMAIN attributes
    THEN returned.val = "nil" /\ returned.err = "nil"
    ELSE IF attributes[key].type = type
    THEN returned.val = attributes[key].val /\ returned.err = "nil"
    ELSE /\ returned.val = "nil"
         /\ returned.err = "the attribute " \o key \o " has the wrong datatype"

C8_Returned ==
    /\ returned.fn = "Perimeters" => ReturnedFor("perimeters", "clip.OffsetResult")
    /\ returned.fn = "OverlapPerimeters" =>
           ReturnedFor("overlapPerimeters", "[][]data.LayerPart")

\* C8: each accessor returns (nil, nil) for an absent key, (value, nil) for
\* a value of the expected type and (nil, error naming the key) for a value
\* of any other type, and leaves the attributes as they are.
C8_Accessors == [](C8_Returned) /\ [][attributes' = attributes]_vars

\* OverlapPerimeters met a value of another type under its key, while the
\* value under "perimeters" has the type OverlapPerimeters expects.
C8_Witness ==
    /\ returned.fn = "OverlapPerimeters"
    /\ returned.val = "nil" /\ returned.err # "nil"
    /\ "perimeters" \in DOMAIN attributes
    /\ attributes["perimeters"].type = "[][]data.LayerPart"

(***************************************************************************)
(* perimeterModifier.Modify                                                *)
(*                                                                         *)
(* A layer part is described by how it behaves under insetting: the number *)
(* of offset steps it survives, and the number of regions of each wall.    *)
(***************************************************************************)
\* Parts per layer of the layer stacks: up to two layers, two parts in all.
StackShapes == {<<>>, <<0>>, <<1>>, <<2>>, <<0, 0>>, <<0, 1>>, <<1, 0>>,
                <<1, 1>>, <<0, 2>>, <<2, 0>>}

PartKinds == [insets : 0..MaxInsetCount, walls : 1..MaxWalls]

InfillOverlapPercents == {50, 100}
ExtrusionWidths == {400}

\* A layer with n parts: its parts and its (empty) attributes.
LayersOfShape(n) == {[parts |-> ps, attributes |-> <<>>] : ps \in [1..n -> PartKinds]}

RECURSIVE StacksOfShape(_)
StacksOfShape(shape) ==
    IF shape = <<>> THEN {<<>>}
    ELSE {<<l>> \o r : l \in LayersOfShape(Head(shape)),
                       r \in StacksOfShape(Tail(shape))}

\* clip.Clipper.InsetLayer as the modifier uses it: [part][insetNr][]LayerPart.
\* A part yields one entry per offset step it survives, insetCount at most
\* (none for insetCount = 0); each entry holds the part's wall regions.
InsetLayer(lNr, parts, count) ==
    [p \in 1..Len(parts) |->
        [k \in 1..(IF parts[p].insets < count THEN parts[p].insets ELSE count) |->
            [w \in 1..parts[p].walls |->
                [layer |-> lNr, part |-> p - 1, inset |-> k - 1, wall |-> w - 1]]]]

\* perimeterOverlap := data.Micrometer(float32(extrusionWidth) *
\*     (100.0 - float32(overlapPercent)) / 100.0): the conversion truncates.
PerimeterOverlap(overlapPercent, extrusionWidth) ==
    GoDiv(extrusionWidth * (100 - overlapPercent), 100)

\* calculateOverlapPerimeter.  survives tells whether the inset of the part
\* by perimeterOverlap leaves a region: then c.Inset(...)[0] is the part
\* derived from it, else c.Inset(...) is empty and [0] is out of range.
calculateOverlapPerimeter(part, overlapPercent, extrusionWidth, survives) ==
    IF PerimeterOverlap(overlapPercent, extrusionWidth) # 0
    THEN IF survives
         THEN [panic |-> FALSE, parts |-> <<[from |-> part]>>]
         ELSE [panic |-> TRUE, parts |-> <<>>]
    ELSE [panic |-> FALSE, parts |-> <<part>>]

\* The guard with a strict comparison: no slot is ever appended.
NeedsSlotStrict(len, nr) == len > nr

\* if len(overlapPerimeter) >= partNr { append(overlapPerimeter, nil) }
NeedsSlot(len, nr) == len >= nr

\* The loop over the innermost perimeter, from its i-th region on: the
\* overlap perimeter after it and the expression that panicked, if any.
RECURSIVE OverInnermost(_, _, _, _)
OverInnermost(ovl, innermost, i, survive) ==
    IF i > Len(innermost) THEN [ovl |-> ovl, panicAt |-> ""]
    ELSE LET r == calculateOverlapPerimeter(innermost[i],
                      options.InfillOverlapPercent, options.ExtrusionWidth,
                      survive[i])
         IN  IF r.panic THEN [ovl |-> ovl, panicAt |-> "Inset(...)[0]"]
             ELSE IF Len(ovl) < partNr + 1
             THEN [ovl |-> ovl, panicAt |-> "overlapPerimeter[partNr]"]
             ELSE OverInnermost([ovl EXCEPT ![partNr + 1] = @ \o r.parts],
                                innermost, i + 1, survive)

\* The start of one iteration of the loop over the layers: InsetLayer.
ModifyLayer ==
    /\ modPc = "layer"
    /\ layerNr < Len(layers)
    /\ insetParts' = InsetLayer(layerNr, layers[layerNr + 1].parts,
                                options.InsetCount)
    /\ overlapPerimeter' = <<>>
    /\ partNr' = 0
    /\ modPc' = "part"
    /\ UNCHANGED <<layers, options, layerNr, panicAt>>
    /\ UNCHANGED <<partVars, insetVars, fillVars, attrVars>>

\* One iteration of the loop over insetParts.
ModifyPart ==
    /\ modPc = "part"
    /\ partNr < Len(insetParts)
    /\ LET part == insetParts[partNr + 1]
           grown == IF NeedsSlot(Len(overlapPerimeter), partNr)
                    THEN Append(overlapPerimeter, <<>>)
                    ELSE overlapPerimeter
       IN  IF Len(part) = 0
           THEN /\ overlapPerimeter' = grown
                /\ panicAt' = "part[len(part)-1]"
                /\ modPc' = "panic"
                /\ partNr' = partNr
           ELSE \E survive \in [1..Len(part[Len(part)]) -> BOOLEAN] :
                  \E r \in {OverInnermost(grown, part[Len(part)], 1, survive)} :
                    /\ overlapPerimeter' = r.ovl
                    /\ panicAt' = r.panicAt
                    /\ modPc' = IF r.panicAt = "" THEN "part" ELSE "panic"
                    /\ partNr' = IF r.panicAt = "" THEN partNr + 1 ELSE partNr
    /\ UNCHANGED <<layers, options, layerNr, insetParts>>
    /\ UNCHANGED <<partVars, insetVars, fillVars, attrVars>>

\* The end of the iteration: both results become attributes of the layer.
ModifyLayerEnd ==
    /\ modPc = "part"
    /\ partNr >= Len(insetParts)
    /\ layers' = [layers EXCEPT ![layerNr + 1].attributes =
                     [perimeters |-> insetParts,
                      overlapPerimeters |-> overlapPerimeter]]
    /\ layerNr' = layerNr + 1
    /\ modPc' = "layer"
    /\ UNCHANGED <<options, partNr, insetParts, overlapPerimeter, panicAt>>
    /\ UNCHANGED <<partVars, insetVars, fillVars, attrVars>>

\* return nil
ModifyEnd ==
    /\ modPc = "layer"
    /\ layerNr >= Len(layers)
    /\ modPc' = "done"
    /\ UNCHANGED <<layers, options, layerNr, partNr, insetParts,
                   overlapPerimeter, panicAt>>
    /\ UNCHANGED <<partVars, insetVars, fillVars, attrVars>>

InitModify ==
    /\ layers \in UNION {StacksOfShape(sh) : sh \in StackShapes}
    /\ options \in [InsetCount : 0..MaxInsetCount,
                    InfillOverlapPercent : InfillOverlapPercents,
                    ExtrusionWidth : ExtrusionWidths]
    /\ layerNr = 0 /\ partNr = 0 /\ insetParts = <<>>
    /\ overlapPerimeter = <<>> /\ panicAt = "" /\ modPc = "layer"
    /\ IdlePartition /\ IdleInset /\ IdleFill /\ IdleAttr

NextModify ==
    \/ ModifyLayer
    \/ ModifyPart
    \/ ModifyLayerEnd
    \/ ModifyEnd

SpecModify == InitModify /\ [][NextModify]_vars

(***************************************************************************)
(* Claims about Modify                                                     *)
(***************************************************************************)
\* C9: insetCount = 0 disables the perimeter modifier: for every layer
\* stack, also one whose layers have parts, Modify completes and returns
\* no error (it does not panic).
C9_ModifyCompletes ==
    options.InsetCount = 0 => (modPc # "panic" /\ panicAt = "")

\* The layer part an overlap perimeter entry comes from.
SourceOf(e) == IF "from" \in DOMAIN e THEN e.from ELSE e

Elements(sq) == {sq[i] : i \in 1..Len(sq)}

\* The stored attributes of a processed layer: as many overlap entries as
\* parts, entry i taken from the innermost perimeter of part i only.
StoredAligned(l) ==
    LET perims == l.attributes.perimeters
        ovl == l.attributes.overlapPerimeters
    IN  /\ Len(perims) = Len(l.parts)
        /\ Len(ovl) = Len(perims)
        /\ \A i \in 1..Len(ovl) :
               \A e \in Elements(ovl[i]) :
                   /\ Len(perims[i]) > 0
                   /\ SourceOf(e) \in Elements(perims[i][Len(perims[i])])

\* C10: overlapPerimeter has exactly one slot per part: the index partNr
\* exists when it is written, the length is partNr + 1 after part partNr,
\* and the stored value has one entry per part, entry i from the innermost
\* perimeter of part i only.
C10_OneSlotPerPart ==
    /\ panicAt # "overlapPerimeter[partNr]"
    /\ modPc = "part" => Len(overlapPerimeter) = partNr
    /\ \A n \in 1..Len(layers) :
           (n <= layerNr /\ modPc # "idle") => StoredAligned(layers[n])

\* Modify returned for a layer of two parts whose overlap entries are both
\* filled, the first part with two insets.
C10_Witness ==
    /\ modPc = "done"
    /\ Len(layers) >= 1
    /\ Len(layers[1].parts) = 2
    /\ Len(layers[1].attributes.perimeters[1]) = 2
    /\ layers[1].attributes.overlapPerimeters[1] # <<>>
    /\ layers[1].attributes.overlapPerimeters[2] # <<>>

====
